---- MODULE Spec2Model ----
(***************************************************************************)
(* The RPC API service of go-nebulas (rpc/api_service.go): the transaction *)
(* submission handlers, the account-state and receipt queries and the      *)
(* Subscribe event stream, as state machines over the collaborators they   *)
(* call (block chain, transaction pool, account manager, event emitter,    *)
(* net manager, gRPC stream).                                              *)
(***************************************************************************)
EXTENDS Integers, Sequences, FiniteSets, TLC

VARIABLES
    chain,          \* canonical chain: chain[h] is the account state of the block at height h
    pool,           \* number of transactions the transaction pool has accepted
    last,           \* the handler call that ran last: its request and its outcome
    pc,             \* Subscribe session -> "idle" | "streaming" | "closed"
    topics,         \* Subscribe session -> req.Topic
    chainEventCh,   \* Subscribe session -> content of chainEventCh
    netEventCh,     \* Subscribe session -> content of netEventCh
    stream,         \* Subscribe session -> responses gs.Send has delivered
    cancelled,      \* Subscribe session -> the caller cancelled / disconnected
    result,         \* Subscribe session -> error Subscribe returned
    regLog,         \* Subscribe session -> Register calls made, in order
    deregLog,       \* Subscribe session -> Deregister calls made, in order
    chainEnq,       \* Subscribe session -> every event the emitter put on chainEventCh
    failed,         \* Subscribe session -> first decode or send failure met in the loop
    emitted,        \* number of events and messages the emitters have produced
    pReq, pOk, pOut,        \* parseTransaction: request, payload ToBytes outcome, result
    rEvents, rStatus,       \* toTransactionResponse: fetched events, status
    dTxA, dTxB, dAddr,      \* contract address: two Deploy transactions, their addresses
    qLedger, qOut,          \* read handlers: the ledger they read, the last call's outcome
    wTx, wOut,              \* raw round trip: a signed transaction, SendRawTransaction's outcome
    cPc, cReq, pushLog,     \* concurrent sendTransaction calls and what they handed the pool
    netRegs, rPc, rGot      \* net manager's subscribers, concurrent sessions, messages they got

txVars   == <<chain, pool, last>>
subVars  == <<pc, topics, chainEventCh, netEventCh, stream, cancelled, result,
              regLog, deregLog, chainEnq, failed, emitted>>
queryVars == <<qLedger, qOut>>
rawVars   == <<wTx, wOut>>
concVars  == <<cPc, cReq, pushLog>>
regVars   == <<netRegs, rPc, rGot>>
moreVars  == <<queryVars, rawVars, concVars, regVars>>
firstVars == <<pReq, pOk, pOut, rEvents, rStatus, dTxA, dTxB, dAddr>>
pureVars == <<pReq, pOk, pOut, rEvents, rStatus, dTxA, dTxB, dAddr, moreVars>>
vars     == <<txVars, subVars, pureVars>>

None == "none"

(***************************************************************************)
(* Bounds of the model.                                                    *)
(***************************************************************************)
MaxNonce   == 2     \* request nonces range over 0..MaxNonce
MaxHeight  == 2     \* the chain grows to at most MaxHeight blocks
MaxPool    == 1     \* the pool accepts at most MaxPool transactions
MaxFetched == 4     \* FetchEvents returns at most MaxFetched events
ChanCap    == 2     \* capacity of a session channel (128 in the code)
MaxEmit    == 3     \* events and messages produced per behaviour
MaxGot     == 2     \* network messages handed to one concurrent session

Range(s) == {s[i] : i \in 1..Len(s)}

RECURSIVE SeqsUpTo(_, _)
SeqsUpTo(S, n) ==
    IF n = 0 THEN {<<>>}
    ELSE LET shorter == SeqsUpTo(S, n - 1)
         IN  shorter \cup {Append(s, x) : s \in {t \in shorter : Len(t) = n - 1}, x \in S}

(***************************************************************************)
(* core: addresses, amounts, payload types.                                *)
(***************************************************************************)
\* Address strings a request can carry; the last one does not parse.
AddressStrings == {"n1a", "n1b", "zz"}

\* core.AddressParse: the address bytes, or an error.
AddressParse(str) ==
    CASE str = "n1a" -> [err |-> None, bytes |-> <<10>>]
      [] str = "n1b" -> [err |-> None, bytes |-> <<11>>]
      [] OTHER       -> [err |-> "address: invalid address", bytes |-> <<>>]

\* Address.String()
AddressString(bytes) ==
    CASE bytes = <<10>> -> "n1a"
      [] bytes = <<11>> -> "n1b"
      [] OTHER          -> "?"

Addresses == {AddressParse(s).bytes : s \in {t \in AddressStrings : AddressParse(t).err = None}}

\* Decimal strings are sequences of digits; -1 stands for a character that is
\* no digit.
AmountStrings == {<<1>>, <<2>>}

MalformedAmountStrings == {<<-1>>, <<1, -1>>}

IsDecimal(str) == str # <<>> /\ \A i \in 1..Len(str) : str[i] \in 0..9

RECURSIVE DecimalValue(_)
DecimalValue(str) ==
    IF str = <<>> THEN 0
    ELSE 10 * DecimalValue(SubSeq(str, 1, Len(str) - 1)) + str[Len(str)]

\* util.NewUint128FromString: one result and no error (lines 233-235); a string
\* that is no decimal number leaves the new big.Int at zero.
NewUint128FromString(str) == IF IsDecimal(str) THEN DecimalValue(str) ELSE 0

RECURSIVE DecimalString(_)
\* fmt.Sprintf("%d", n) and Uint128.String(): the decimal digits of n.
DecimalString(n) ==
    IF n < 10 THEN <<n>> ELSE Append(DecimalString(n \div 10), n % 10)

TxPayloadBinaryType    == "binary"
TxPayloadDeployType    == "deploy"
TxPayloadCallType      == "call"
TxPayloadCandidateType == "candidate"
TxPayloadDelegateType  == "delegate"

ChainID == 100

RECURSIVE ShiftRightBytes(_, _)
ShiftRightBytes(n, k) == IF k = 0 THEN n ELSE ShiftRightBytes(n \div 256, k - 1)

\* byteutils.FromUint64: the 8 big-endian bytes of n.
FromUint64(n) == [i \in 1..8 |-> ShiftRightBytes(n, 8 - i) % 256]

\* hash.Sha3256(args...): a collision-free digest of the concatenated arguments.
Sha3256(bytesA, bytesB) == <<"sha3">> \o bytesA \o bytesB

\* core.NewContractAddressFromHash(...).String()
NewContractAddressFromHash(digest) == <<"contract">> \o digest

(***************************************************************************)
(* rpcpb.TransactionRequest and parseTransaction.                          *)
(* A nil message pointer is <<>>, a set one is <<message>>.                *)
(***************************************************************************)
ContractRequests ==
    {<<>>} \cup {<<[source |-> s, function |-> f]>> : s \in {"", "s1", "s2"}, f \in {"", "f"}}
CandidateRequests == {<<>>, <<[action |-> "login"]>>}
DelegateRequests  == {<<>>, <<[action |-> "do", delegatee |-> "n1b"]>>}

Requests ==
    [from : AddressStrings, to : {"n1a", "zz"}, value : AmountStrings,
     nonce : 0..MaxNonce, gasPrice : AmountStrings, gasLimit : AmountStrings,
     contract : ContractRequests, candidate : CandidateRequests,
     delegate : DelegateRequests]

PayloadTypeOfMutCallFirst(reqTx) ==
    IF reqTx.contract # <<>> /\ reqTx.contract[1].function # ""
        THEN TxPayloadCallType
    ELSE IF reqTx.contract # <<>> /\ reqTx.contract[1].source # ""
        THEN TxPayloadDeployType
    ELSE IF reqTx.candidate # <<>> THEN TxPayloadCandidateType
    ELSE IF reqTx.delegate # <<>> THEN TxPayloadDelegateType
    ELSE TxPayloadBinaryType

\* The payload type the if / else-if chain of parseTransaction selects.
PayloadTypeOf(reqTx) ==
    IF reqTx.contract # <<>> /\ reqTx.contract[1].source # ""
        THEN TxPayloadDeployType
    ELSE IF reqTx.contract # <<>> /\ reqTx.contract[1].function # ""
        THEN TxPayloadCallType
    ELSE IF reqTx.candidate # <<>> THEN TxPayloadCandidateType
    ELSE IF reqTx.delegate # <<>> THEN TxPayloadDelegateType
    ELSE TxPayloadBinaryType

\* The bytes of the selected payload (core.New...Payload(...).ToBytes()).
PayloadOf(reqTx) ==
    LET type == PayloadTypeOf(reqTx)
    IN  CASE type = TxPayloadDeployType    -> <<"deploy", reqTx.contract[1].source>>
          [] type = TxPayloadCallType      -> <<"call", reqTx.contract[1].function>>
          [] type = TxPayloadCandidateType -> <<"candidate", reqTx.candidate[1].action>>
          [] type = TxPayloadDelegateType  ->
                <<"delegate", reqTx.delegate[1].action, reqTx.delegate[1].delegatee>>
          [] OTHER                         -> <<>>

\* core.NewTransaction
NewTransaction(chainID, from, to, value, nonce, payloadType, payload, gasPrice, gasLimit) ==
    [chainID |-> chainID, from |-> from, to |-> to, value |-> value, nonce |-> nonce,
     type |-> payloadType, payload |-> payload, gasPrice |-> gasPrice,
     gasLimit |-> gasLimit, hash |-> <<>>, sign |-> FALSE]

\* parseTransaction; toBytesOk is the outcome of the payload's ToBytes().
parseTransaction(reqTx, toBytesOk) ==
    LET fromAddr == AddressParse(reqTx.from)
        toAddr   == AddressParse(reqTx.to)
        value    == NewUint128FromString(reqTx.value)
        gasPrice == NewUint128FromString(reqTx.gasPrice)
        gasLimit == NewUint128FromString(reqTx.gasLimit)
        type     == PayloadTypeOf(reqTx)
    IN  IF fromAddr.err # None THEN [err |-> fromAddr.err, tx |-> <<>>]
        ELSE IF toAddr.err # None THEN [err |-> toAddr.err, tx |-> <<>>]
        ELSE IF type # TxPayloadBinaryType /\ ~toBytesOk
            THEN [err |-> "payload: marshal failed", tx |-> <<>>]
        ELSE [err |-> None,
              tx  |-> <<NewTransaction(ChainID, fromAddr.bytes, toAddr.bytes, value,
                                       reqTx.nonce, type, PayloadOf(reqTx), gasPrice,
                                       gasLimit)>>]

\* Transaction.Hash(): digest of the transaction's canonical fields.
TxHash(tx) ==
    <<"sha3", tx.chainID, tx.from, tx.to, tx.value, tx.nonce, tx.type, tx.payload,
      tx.gasPrice, tx.gasLimit>>

(***************************************************************************)
(* The contract address the two submit handlers report.                    *)
(***************************************************************************)
SendRawContractAddressMutGasPrice(tx) ==
    NewContractAddressFromHash(Sha3256(tx.from, FromUint64(tx.gasPrice)))

\* sendTransaction, line 214
SendTxContractAddress(tx) ==
    NewContractAddressFromHash(Sha3256(tx.from, FromUint64(tx.nonce)))

\* SendRawTransaction, line 292
SendRawContractAddress(tx) ==
    NewContractAddressFromHash(Sha3256(tx.from, FromUint64(tx.nonce)))

(***************************************************************************)
(* toTransactionResponse: the receipt status.                              *)
(***************************************************************************)
TopicExecuteTxSuccess == "chain.executeTxSuccess"
TopicExecuteTxFailed  == "chain.executeTxFailed"
TopicOther            == "chain.linkBlock"
EventTopics == {TopicExecuteTxSuccess, TopicExecuteTxFailed, TopicOther}

\* What FetchEvents can return: a nil slice, or a list of events (their topics).
FetchedEvents ==
    {[nil |-> TRUE, list |-> <<>>]}
        \cup {[nil |-> FALSE, list |-> l] : l \in SeqsUpTo(EventTopics, MaxFetched)}

\* Index of the first event the loop breaks on, 0 when it breaks on none.
FirstDeciding(events) ==
    LET hits == {i \in 1..Len(events.list) :
                    events.list[i] \in {TopicExecuteTxSuccess, TopicExecuteTxFailed}}
    IN  IF hits = {} THEN 0 ELSE CHOOSE i \in hits : \A j \in hits : i <= j

\* status as toTransactionResponse leaves it (var status uint32 starts at 0).
StatusOf(events) ==
    IF events.nil THEN 2
    ELSE LET i == FirstDeciding(events)
         IN  IF i = 0 THEN 0
             ELSE IF events.list[i] = TopicExecuteTxSuccess THEN 1 ELSE 0

(***************************************************************************)
(* Subscribe sessions.                                                     *)
(***************************************************************************)
Sessions == {"s1"}

(***************************************************************************)
(* The state each specification leaves alone.                              *)
(***************************************************************************)
GenesisBlock == [a \in Addresses |-> [balance |-> 5, nonce |-> 0]]

IdleCall == [op |-> "none", from |-> "", nonce |-> 0, height |-> <<>>, err |-> None,
             tx |-> <<>>, signed |-> FALSE, pushed |-> <<>>, txhash |-> <<>>,
             contract |-> <<>>, balance |-> <<>>, nonceStr |-> <<>>,
             result |-> <<>>, steps |-> <<>>, marks |-> <<>>, data |-> <<>>]

TxIdle ==
    /\ chain = <<GenesisBlock>>
    /\ pool = 0
    /\ last = IdleCall

SubIdle ==
    /\ pc = [s \in Sessions |-> "idle"]
    /\ topics = [s \in Sessions |-> <<>>]
    /\ chainEventCh = [s \in Sessions |-> <<>>]
    /\ netEventCh = [s \in Sessions |-> <<>>]
    /\ stream = [s \in Sessions |-> <<>>]
    /\ cancelled = [s \in Sessions |-> FALSE]
    /\ result = [s \in Sessions |-> None]
    /\ regLog = [s \in Sessions |-> <<>>]
    /\ deregLog = [s \in Sessions |-> <<>>]
    /\ chainEnq = [s \in Sessions |-> <<>>]
    /\ failed = [s \in Sessions |-> <<>>]
    /\ emitted = 0

ParseIdle   == pReq = <<>> /\ pOk = TRUE /\ pOut = <<>>
ReceiptIdle == rEvents = [nil |-> TRUE, list |-> <<>>] /\ rStatus = <<>>
DeployIdle  == dTxA = <<>> /\ dTxB = <<>> /\ dAddr = <<>>
QueryIdle   == qLedger = <<>> /\ qOut = <<>>
RawIdle     == wTx = <<>> /\ wOut = <<>>
ConcIdle    == cPc = <<>> /\ cReq = <<>> /\ pushLog = <<>>
RegIdle     == netRegs = {} /\ rPc = <<>> /\ rGot = <<>>
MoreIdle    == QueryIdle /\ RawIdle /\ ConcIdle /\ RegIdle

(***************************************************************************)
(* Collaborators of the submit handlers and of GetAccountState.            *)
(***************************************************************************)
\* BlockChain.TailBlock()
TailBlock == chain[Len(chain)]

\* BlockChain.GetBlockOnCanonicalChainByHeight: <<>> is the nil block.
GetBlockOnCanonicalChainByHeight(height) ==
    IF height \in 1..Len(chain) THEN <<chain[height]>> ELSE <<>>

\* AccountManager.SignTransaction on success: the hash and the signature are set.
SignTransaction(tx) == [tx EXCEPT !.hash = TxHash(tx), !.sign = TRUE]

\* Transaction.ToProto and proto.Marshal: the wire form of a transaction.
ToProto(tx) ==
    [hash |-> tx.hash, from |-> tx.from, to |-> tx.to, value |-> tx.value,
     nonce |-> tx.nonce, chainID |-> tx.chainID,
     data |-> [type |-> tx.type, payload |-> tx.payload],
     gasPrice |-> tx.gasPrice, gasLimit |-> tx.gasLimit, sign |-> tx.sign]

Marshal(pbTx) == <<"pb", pbTx>>

\* proto.Unmarshal into a corepb.Transaction.
Unmarshal(data) ==
    IF Len(data) = 2 /\ data[1] = "pb"
        THEN [err |-> None, pb |-> <<data[2]>>]
        ELSE [err |-> "proto: cannot parse", pb |-> <<>>]

\* Transaction.FromProto: fails on a message whose value is no Uint128.
FromProto(pbTx) ==
    IF pbTx.value < 0 THEN [err |-> "uint128: invalid bytes", tx |-> <<>>]
    ELSE [err |-> None,
          tx  |-> <<[chainID |-> pbTx.chainID, from |-> pbTx.from, to |-> pbTx.to,
                     value |-> pbTx.value, nonce |-> pbTx.nonce,
                     type |-> pbTx.data.type, payload |-> pbTx.data.payload,
                     gasPrice |-> pbTx.gasPrice, gasLimit |-> pbTx.gasLimit,
                     hash |-> pbTx.hash, sign |-> pbTx.sign]>>]

(***************************************************************************)
(* sendTransaction and SendRawTransaction.                                 *)
(***************************************************************************)
\* The requests the submit handlers are driven with: one gas price and one gas
\* limit, a contract group alone or without one any of candidate and delegate,
\* and a request with a bad address carries no payload group.
SubmitRequests ==
    {r \in Requests :
        /\ r.gasPrice = <<1>> /\ r.gasLimit = <<1>>
        /\ r.contract # <<>> => (r.candidate = <<>> /\ r.delegate = <<>>)
        /\ (r.from = "zz" \/ r.to = "zz") =>
              (r.contract = <<>> /\ r.candidate = <<>> /\ r.delegate = <<>>
                 /\ r.value = <<1>>)}

\* What the collaborators do in one call: all succeed, the payload's ToBytes
\* fails, SignTransaction fails, or PushAndBroadcast rejects.
Oracles == {"ok", "toBytesFails", "signFails", "poolRejects"}

\* Raw transaction data: signed transactions on the wire, a message that does not
\* convert, and bytes that do not unmarshal.
RawData ==
    {Marshal(ToProto(SignTransaction(parseTransaction(r, TRUE).tx[1]))) :
        r \in {q \in SubmitRequests : parseTransaction(q, TRUE).err = None}}
    \cup {Marshal([ToProto(SignTransaction(parseTransaction(r, TRUE).tx[1]))
                      EXCEPT !.value = -1]) :
            r \in {q \in SubmitRequests : /\ parseTransaction(q, TRUE).err = None
                                          /\ q.nonce = 1 /\ q.contract = <<>>
                                          /\ q.candidate = <<>> /\ q.delegate = <<>>}}
    \cup {<<"garbage">>}

NonceRejectedMutEqualAccepted(reqNonce, currentNonce) == reqNonce < currentNonce

\* sendTransaction, line 195
NonceRejected(reqNonce, currentNonce) == reqNonce <= currentNonce

SendTxResponseMutAlwaysAddress(tx) ==
    [txhash |-> tx.hash, contract |-> SendTxContractAddress(tx)]

\* sendTransaction, lines 213-220: the response of a successful call.
SendTxResponse(tx) ==
    IF tx.type = TxPayloadDeployType
        THEN [txhash |-> tx.hash, contract |-> SendTxContractAddress(tx)]
        ELSE [txhash |-> tx.hash, contract |-> <<>>]

SendRawResponseMutRehash(tx) ==
    [txhash |-> <<"sha3", ToProto(tx)>>,
     contract |-> IF tx.type = TxPayloadDeployType THEN SendRawContractAddress(tx)
                  ELSE <<>>]

\* SendRawTransaction, lines 290-297: the response of a successful call.
SendRawResponse(tx) ==
    IF tx.type = TxPayloadDeployType
        THEN [txhash |-> tx.hash, contract |-> SendRawContractAddress(tx)]
        ELSE [txhash |-> tx.hash, contract |-> <<>>]

Outcome(op, from, nonce, err, tx, signed, pushed, resp) ==
    [IdleCall EXCEPT !.op = op, !.from = from, !.nonce = nonce, !.err = err,
                     !.tx = tx, !.signed = signed, !.pushed = pushed,
                     !.txhash = resp.txhash, !.contract = resp.contract]

NoResponse == [txhash |-> <<>>, contract |-> <<>>]

\* The steps a call went through, in order, and the outcome counters it marked.
Traced(outcome, steps, marks) == [outcome EXCEPT !.steps = steps, !.marks = marks]

sendTransactionMutPushBeforeSign(req, oracle) ==
    LET op     == "SendTransaction"
        tail   == TailBlock
        addr   == AddressParse(req.from)
        parsed == parseTransaction(req, oracle # "toBytesFails")
        tx     == parsed.tx[1]
        stx    == SignTransaction(tx)
        failed1 == <<"metricsSendTxFailed">>
    IN  IF addr.err # None
            THEN Traced(Outcome(op, req.from, req.nonce, addr.err, <<>>, FALSE, <<>>,
                                NoResponse),
                        <<"AddressParse">>, failed1)
        ELSE IF NonceRejected(req.nonce, tail[addr.bytes].nonce)
            THEN Traced(Outcome(op, req.from, req.nonce, "nonce is invalid", <<>>, FALSE,
                                <<>>, NoResponse),
                        <<"AddressParse", "NonceCheck">>, failed1)
        ELSE IF parsed.err # None
            THEN Traced(Outcome(op, req.from, req.nonce, parsed.err, <<>>, FALSE, <<>>,
                                NoResponse),
                        <<"AddressParse", "NonceCheck", "parseTransaction">>, failed1)
        ELSE IF oracle = "poolRejects" \/ pool >= MaxPool
            THEN Traced(Outcome(op, req.from, req.nonce, "pool: rejected", <<tx>>, FALSE,
                                <<tx>>, NoResponse),
                        <<"AddressParse", "NonceCheck", "parseTransaction",
                          "PushAndBroadcast">>, failed1)
        ELSE IF oracle = "signFails"
            THEN Traced(Outcome(op, req.from, req.nonce, "account: sign failed", <<tx>>,
                                TRUE, <<tx>>, NoResponse),
                        <<"AddressParse", "NonceCheck", "parseTransaction",
                          "PushAndBroadcast", "SignTransaction">>, failed1)
        ELSE Traced(Outcome(op, req.from, req.nonce, None, <<stx>>, TRUE, <<tx>>,
                            SendTxResponse(stx)),
                    <<"AddressParse", "NonceCheck", "parseTransaction",
                      "PushAndBroadcast", "SignTransaction">>,
                    <<"metricsSendTxSuccess">>)

\* sendTransaction: the outcome of the call; signed says SignTransaction was
\* called, pushed holds the transaction PushAndBroadcast was called with, steps
\* lists the steps run and marks the counters marked.
sendTransaction(req, oracle) ==
    LET op     == "SendTransaction"
        tail   == TailBlock
        addr   == AddressParse(req.from)
        parsed == parseTransaction(req, oracle # "toBytesFails")
        tx     == parsed.tx[1]
        stx    == SignTransaction(tx)
        failed1 == <<"metricsSendTxFailed">>
    IN  IF addr.err # None
            THEN Traced(Outcome(op, req.from, req.nonce, addr.err, <<>>, FALSE, <<>>,
                                NoResponse),
                        <<"AddressParse">>, failed1)
        ELSE IF NonceRejected(req.nonce, tail[addr.bytes].nonce)
            THEN Traced(Outcome(op, req.from, req.nonce, "nonce is invalid", <<>>, FALSE,
                                <<>>, NoResponse),
                        <<"AddressParse", "NonceCheck">>, failed1)
        ELSE IF parsed.err # None
            THEN Traced(Outcome(op, req.from, req.nonce, parsed.err, <<>>, FALSE, <<>>,
                                NoResponse),
                        <<"AddressParse", "NonceCheck", "parseTransaction">>, failed1)
        ELSE IF oracle = "signFails"
            THEN Traced(Outcome(op, req.from, req.nonce, "account: sign failed", <<tx>>,
                                TRUE, <<>>, NoResponse),
                        <<"AddressParse", "NonceCheck", "parseTransaction",
                          "SignTransaction">>, failed1)
        ELSE IF oracle = "poolRejects" \/ pool >= MaxPool
            THEN Traced(Outcome(op, req.from, req.nonce, "pool: rejected", <<stx>>, TRUE,
                                <<stx>>, NoResponse),
                        <<"AddressParse", "NonceCheck", "parseTransaction",
                          "SignTransaction", "PushAndBroadcast">>, failed1)
        ELSE Traced(Outcome(op, req.from, req.nonce, None, <<stx>>, TRUE, <<stx>>,
                            SendTxResponse(stx)),
                    <<"AddressParse", "NonceCheck", "parseTransaction",
                      "SignTransaction", "PushAndBroadcast">>,
                    <<"metricsSendTxSuccess">>)

sendRawTransactionMutRejectedUnmarked(data, oracle) ==
    LET op    == "SendRawTransaction"
        pbTx  == Unmarshal(data)
        conv  == FromProto(pbTx.pb[1])
        tx    == conv.tx[1]
        failed1 == <<"metricsSendRawTxFailed">>
    IN  IF pbTx.err # None
            THEN Traced(Outcome(op, "", 0, pbTx.err, <<>>, FALSE, <<>>, NoResponse),
                        <<"Unmarshal">>, failed1)
        ELSE IF conv.err # None
            THEN Traced(Outcome(op, "", 0, conv.err, <<>>, FALSE, <<>>, NoResponse),
                        <<"Unmarshal", "FromProto">>, failed1)
        ELSE IF oracle = "poolRejects" \/ pool >= MaxPool
            THEN Traced(Outcome(op, AddressString(tx.from), tx.nonce, "pool: rejected",
                                <<tx>>, FALSE, <<tx>>, NoResponse),
                        <<"Unmarshal", "FromProto", "PushAndBroadcast">>, <<>>)
        ELSE Traced(Outcome(op, AddressString(tx.from), tx.nonce, None, <<tx>>, FALSE,
                            <<tx>>, SendRawResponse(tx)),
                    <<"Unmarshal", "FromProto", "PushAndBroadcast">>,
                    <<"metricsSendRawTxSuccess">>)

sendRawTransactionMutNonceChecked(data, oracle) ==
    LET op    == "SendRawTransaction"
        pbTx  == Unmarshal(data)
        conv  == FromProto(pbTx.pb[1])
        tx    == conv.tx[1]
        failed1 == <<"metricsSendRawTxFailed">>
    IN  IF pbTx.err # None
            THEN Traced(Outcome(op, "", 0, pbTx.err, <<>>, FALSE, <<>>, NoResponse),
                        <<"Unmarshal">>, failed1)
        ELSE IF conv.err # None
            THEN Traced(Outcome(op, "", 0, conv.err, <<>>, FALSE, <<>>, NoResponse),
                        <<"Unmarshal", "FromProto">>, failed1)
        ELSE IF NonceRejected(tx.nonce, TailBlock[tx.from].nonce)
            THEN Traced(Outcome(op, AddressString(tx.from), tx.nonce, "nonce is invalid",
                                <<tx>>, FALSE, <<>>, NoResponse),
                        <<"Unmarshal", "FromProto", "NonceCheck">>, failed1)
        ELSE IF oracle = "poolRejects" \/ pool >= MaxPool
            THEN Traced(Outcome(op, AddressString(tx.from), tx.nonce, "pool: rejected",
                                <<tx>>, FALSE, <<tx>>, NoResponse),
                        <<"Unmarshal", "FromProto", "NonceCheck", "PushAndBroadcast">>,
                        failed1)
        ELSE Traced(Outcome(op, AddressString(tx.from), tx.nonce, None, <<tx>>, FALSE,
                            <<tx>>, SendRawResponse(tx)),
                    <<"Unmarshal", "FromProto", "NonceCheck", "PushAndBroadcast">>,
                    <<"metricsSendRawTxSuccess">>)

\* SendRawTransaction: the outcome of the call.
sendRawTransaction(data, oracle) ==
    LET op    == "SendRawTransaction"
        pbTx  == Unmarshal(data)
        conv  == FromProto(pbTx.pb[1])
        tx    == conv.tx[1]
        failed1 == <<"metricsSendRawTxFailed">>
    IN  IF pbTx.err # None
            THEN Traced(Outcome(op, "", 0, pbTx.err, <<>>, FALSE, <<>>, NoResponse),
                        <<"Unmarshal">>, failed1)
        ELSE IF conv.err # None
            THEN Traced(Outcome(op, "", 0, conv.err, <<>>, FALSE, <<>>, NoResponse),
                        <<"Unmarshal", "FromProto">>, failed1)
        ELSE IF oracle = "poolRejects" \/ pool >= MaxPool
            THEN Traced(Outcome(op, AddressString(tx.from), tx.nonce, "pool: rejected",
                                <<tx>>, FALSE, <<tx>>, NoResponse),
                        <<"Unmarshal", "FromProto", "PushAndBroadcast">>, failed1)
        ELSE Traced(Outcome(op, AddressString(tx.from), tx.nonce, None, <<tx>>, FALSE,
                            <<tx>>, SendRawResponse(tx)),
                    <<"Unmarshal", "FromProto", "PushAndBroadcast">>,
                    <<"metricsSendRawTxSuccess">>)

\* What BlockChain.Call does: it returns a result or fails.
CallOracles == {"ok", "toBytesFails", "callFails"}

callMutSubmits(req, oracle) ==
    [sendTransaction(req, IF oracle = "callFails" THEN "poolRejects" ELSE oracle)
        EXCEPT !.op = "Call"]

\* Call: parseTransaction, then BlockChain.Call on the transaction built.
call(req, oracle) ==
    LET op     == "Call"
        parsed == parseTransaction(req, oracle # "toBytesFails")
        tx     == parsed.tx[1]
    IN  IF parsed.err # None
            THEN Traced(Outcome(op, req.from, req.nonce, parsed.err, <<>>, FALSE, <<>>,
                                NoResponse),
                        <<"parseTransaction">>, <<>>)
        ELSE IF oracle = "callFails"
            THEN Traced(Outcome(op, req.from, req.nonce, "call: failed", <<tx>>, FALSE,
                                <<>>, NoResponse),
                        <<"parseTransaction", "Call">>, <<>>)
        ELSE [Traced(Outcome(op, req.from, req.nonce, None, <<tx>>, FALSE, <<>>,
                             NoResponse),
                     <<"parseTransaction", "Call">>, <<>>)
                EXCEPT !.result = <<"result">>]

\* The pool after a call: it grows by the transaction it accepted.
PoolAfter(outcome) == IF outcome.err = None /\ outcome.pushed # <<>> THEN pool + 1 ELSE pool

SendTransaction ==
    \E req \in SubmitRequests, oracle \in Oracles :
        /\ last' = sendTransaction(req, oracle)
        /\ pool' = PoolAfter(last')
        /\ UNCHANGED <<chain, subVars, pureVars>>

SendRawTransaction ==
    \E data \in RawData, oracle \in {"ok", "poolRejects"} :
        /\ last' = [sendRawTransaction(data, oracle) EXCEPT !.data = <<data>>]
        /\ pool' = PoolAfter(last')
        /\ UNCHANGED <<chain, subVars, pureVars>>

(***************************************************************************)
(* GetAccountState.                                                        *)
(***************************************************************************)
\* rpcpb.GetAccountStateRequest: height is <<>> when the caller omits it.
AccountStateRequests ==
    [address : AddressStrings, height : {<<>>} \cup {<<h>> : h \in 0..(MaxHeight + 1)}]

\* req.Height as the handler reads it: an omitted uint64 field reads as 0.
GetHeight(req) == IF req.height = <<>> THEN 0 ELSE req.height[1]

AccountStateBlockMutZeroIsHeight(height) == GetBlockOnCanonicalChainByHeight(height)

\* GetAccountState, lines 142-149: the block the state is read from, <<>> if none.
AccountStateBlock(height) ==
    IF height > 0 THEN GetBlockOnCanonicalChainByHeight(height) ELSE <<TailBlock>>

\* GetAccountState: the outcome of the call.
getAccountState(req) ==
    LET addr  == AddressParse(req.address)
        block == AccountStateBlock(GetHeight(req))
        base  == [IdleCall EXCEPT !.op = "GetAccountState", !.from = req.address,
                                  !.height = req.height]
    IN  IF addr.err # None THEN [base EXCEPT !.err = addr.err]
        ELSE IF block = <<>> THEN [base EXCEPT !.err = "block not found"]
        ELSE [base EXCEPT !.balance = DecimalString(block[1][addr.bytes].balance),
                          !.nonceStr = DecimalString(block[1][addr.bytes].nonce)]

GetAccountState ==
    \E req \in AccountStateRequests :
        /\ last' = getAccountState(req)
        /\ UNCHANGED <<chain, pool, subVars, pureVars>>

(***************************************************************************)
(* The chain grows: a new tail block in which one account has sent a       *)
(* transaction (its nonce is one higher, its balance one lower).           *)
(***************************************************************************)
AppendBlock ==
    \E a \in Addresses :
        /\ Len(chain) < MaxHeight
        /\ chain' = Append(chain,
                           [TailBlock EXCEPT ![a] = [balance |-> TailBlock[a].balance - 1,
                                                     nonce   |-> TailBlock[a].nonce + 1]])
        /\ last' = [IdleCall EXCEPT !.op = "AppendBlock"]
        /\ UNCHANGED <<pool, subVars, pureVars>>

Init == TxIdle /\ SubIdle /\ ParseIdle /\ ReceiptIdle /\ DeployIdle /\ MoreIdle

Next == SendTransaction \/ SendRawTransaction \/ GetAccountState \/ AppendBlock

Spec == Init /\ [][Next]_vars

\* The request of the last call names a sender whose nonce in the tail block is
\* at or above the request's nonce.
NonceAtOrBelowCurrent(c) ==
    /\ AddressParse(c.from).err = None
    /\ c.nonce <= TailBlock[AddressParse(c.from).bytes].nonce

\* C1: a SendTransaction call whose nonce is at or below the sender's nonce in the
\* tail block returns the nonce error, calls neither SignTransaction nor
\* PushAndBroadcast, and leaves the pool as it was.
C1_NonceTooLowRejected ==
    [][(last'.op = "SendTransaction" /\ NonceAtOrBelowCurrent(last)')
          => /\ last'.err = "nonce is invalid"
             /\ ~last'.signed
             /\ last'.pushed = <<>>
             /\ pool' = pool]_vars

\* C1 witness: a request whose nonce equals the sender's nonzero current nonce
\* has been rejected.
C1_Witness ==
    /\ last.op = "SendTransaction"
    /\ NonceAtOrBelowCurrent(last)
    /\ last.nonce = 1
    /\ last.err = "nonce is invalid"

\* C8: for a valid address, GetAccountState with height 0 and with height omitted
\* both return the balance and nonce of the tail block, and a height above the
\* chain's height returns "block not found" and no state.
C8_AccountStateHeight ==
    LET addr == AddressParse(last.from)
    IN  (last.op = "GetAccountState" /\ addr.err = None) =>
          /\ last.height \in {<<>>, <<0>>} =>
                /\ last.err = None
                /\ last.balance = DecimalString(TailBlock[addr.bytes].balance)
                /\ last.nonceStr = DecimalString(TailBlock[addr.bytes].nonce)
          /\ (last.height # <<>> /\ last.height[1] > Len(chain)) =>
                /\ last.err = "block not found"
                /\ last.balance = <<>>
                /\ last.nonceStr = <<>>

\* C8 witness: height 0 was asked on a chain whose tail differs from the block
\* before it, and the tail's nonce came back.
C8_Witness ==
    /\ last.op = "GetAccountState"
    /\ last.height = <<0>>
    /\ Len(chain) = 2
    /\ last.err = None
    /\ last.nonceStr = <<1>>

\* C10: a successful SendTransaction or SendRawTransaction response carries the
\* transaction hash, and a contract address exactly when the payload type is Deploy.
C10_ContractAddressIffDeploy ==
    (last.op \in {"SendTransaction", "SendRawTransaction"} /\ last.err = None) =>
        /\ last.txhash # <<>>
        /\ (last.contract # <<>>) <=> (last.tx[1].type = TxPayloadDeployType)

\* C10 witness: a successful SendTransaction of a Call transaction answered with
\* the hash alone.
C10_Witness ==
    /\ last.op = "SendTransaction" /\ last.err = None
    /\ last.tx[1].type = TxPayloadCallType
    /\ last.txhash # <<>> /\ last.contract = <<>>

(***************************************************************************)
(* Subscribe: one streaming session per element of Sessions.               *)
(***************************************************************************)
ChainTopics == {"chain.newTailBlock", "chain.linkBlock"}

\* req.Topic: one topic, two topics, one topic listed twice.
TopicRequests ==
    {<<"chain.newTailBlock">>, <<"chain.newTailBlock", "chain.linkBlock">>,
     <<"chain.linkBlock", "chain.linkBlock">>}

\* core.Event
ChainEvents == [topic : ChainTopics, data : {"d1", "d2"}]

MessageTypeNewBlock == "newblock"
MessageTypeNewTx    == "newtx"

\* A signed transaction as the network announces it.
AnnouncedTx ==
    ToProto(SignTransaction(NewTransaction(ChainID, <<10>>, <<11>>, 1, 1,
                                           TxPayloadBinaryType, <<>>, 1, 1)))

\* net.Message: a message type and its data. The data is a well-formed block or
\* transaction, one that unmarshals but does not convert, or bytes that do not
\* unmarshal.
NetMessages ==
    [type : {MessageTypeNewBlock}, data : {Marshal([height |-> 2]), Marshal([height |-> -1]),
                                           <<"garbage">>}]
    \cup [type : {MessageTypeNewTx}, data : {Marshal(AnnouncedTx),
                                             Marshal([AnnouncedTx EXCEPT !.value = -1]),
                                             <<"garbage">>}]

\* Block.FromProto: fails on a message that is no valid block.
BlockFromProto(pbBlock) ==
    IF pbBlock.height < 0 THEN [err |-> "block: invalid proto", block |-> <<>>]
    ELSE [err |-> None, block |-> <<[height |-> pbBlock.height]>>]

\* json.Marshal of a block or a transaction.
JSONMarshal(object) == <<"json", object>>

\* Subscribe, lines 507-536: decoding a network message into the response to
\* send, or the error the handler returns.
DecodeNetMessage(event) ==
    LET pb == Unmarshal(event.data)
    IN  IF pb.err # None THEN [err |-> pb.err, resp |-> <<>>]
        ELSE IF event.type = MessageTypeNewBlock
            THEN LET conv == BlockFromProto(pb.pb[1])
                 IN  IF conv.err # None THEN [err |-> conv.err, resp |-> <<>>]
                     ELSE [err |-> None,
                           resp |-> <<[src |-> "net", msgType |-> event.type,
                                       data |-> JSONMarshal(conv.block[1])]>>]
            ELSE LET conv == FromProto(pb.pb[1])
                 IN  IF conv.err # None THEN [err |-> conv.err, resp |-> <<>>]
                     ELSE [err |-> None,
                           resp |-> <<[src |-> "net", msgType |-> event.type,
                                       data |-> JSONMarshal(conv.tx[1])]>>]

ChainResponseMutSwapped(event) ==
    [src |-> "chain", msgType |-> event.data, data |-> event.topic]

\* Subscribe, line 502: the response a chain event is forwarded as.
ChainResponse(event) == [src |-> "chain", msgType |-> event.topic, data |-> event.data]

\* The registrations a session makes, in call order (lines 481-483, 493-494):
\* emitter.Register(topic, chainEventCh) per topic, then net.Register of a
\* subscriber (s, netEventCh, message type) for the two message types.
Registrations(s, tps) ==
    [i \in 1..Len(tps) |-> [at |-> "emitter", id |-> "", ch |-> <<"chainEventCh", s>>,
                            what |-> tps[i]]]
    \o <<[at |-> "net", id |-> "APIService", ch |-> <<"netEventCh", s>>,
          what |-> MessageTypeNewBlock],
         [at |-> "net", id |-> "APIService", ch |-> <<"netEventCh", s>>,
          what |-> MessageTypeNewTx]>>

DeferredDeregistrationsMutNewBlockTwice(s, tps) ==
    <<[at |-> "net", id |-> "APIService", ch |-> <<"netEventCh", s>>,
       what |-> MessageTypeNewBlock],
      [at |-> "net", id |-> "APIService", ch |-> <<"netEventCh", s>>,
       what |-> MessageTypeNewBlock]>>
    \o [i \in 1..Len(tps) |-> [at |-> "emitter", id |-> "", ch |-> <<"chainEventCh", s>>,
                               what |-> tps[i]]]

\* The deferred calls a return runs, last deferred first (lines 485-489, 495-496):
\* net.Deregister for new-transaction, for new-block, then emitter.Deregister
\* per topic.
DeferredDeregistrations(s, tps) ==
    <<[at |-> "net", id |-> "APIService", ch |-> <<"netEventCh", s>>,
       what |-> MessageTypeNewTx],
      [at |-> "net", id |-> "APIService", ch |-> <<"netEventCh", s>>,
       what |-> MessageTypeNewBlock]>>
    \o [i \in 1..Len(tps) |-> [at |-> "emitter", id |-> "", ch |-> <<"chainEventCh", s>>,
                               what |-> tps[i]]]

\* gs.Send can fail at any time, and fails once the caller has cancelled.
SendOutcomes(s) == IF cancelled[s] THEN {FALSE} ELSE BOOLEAN

\* The first failure a session met.
NoteFailure(s, src, what, err) ==
    IF failed[s] = <<>> THEN <<[src |-> src, what |-> what, err |-> err]>> ELSE failed[s]

\* Subscribe up to the select loop: make the channels and register them.
Subscribe(s) ==
    \E tps \in TopicRequests :
        /\ pc[s] = "idle"
        /\ topics' = [topics EXCEPT ![s] = tps]
        /\ regLog' = [regLog EXCEPT ![s] = Registrations(s, tps)]
        /\ pc' = [pc EXCEPT ![s] = "streaming"]
        /\ UNCHANGED <<chainEventCh, netEventCh, stream, cancelled, result, deregLog,
                       chainEnq, failed, emitted, txVars, pureVars>>

\* return err: the deferred deregistrations run and the call ends.
Return(s, err) ==
    /\ pc' = [pc EXCEPT ![s] = "closed"]
    /\ result' = [result EXCEPT ![s] = err]
    /\ deregLog' = [deregLog EXCEPT ![s] = DeferredDeregistrations(s, topics[s])]

\* case event := <-chainEventCh (lines 501-505)
RecvChainEvent(s) ==
    /\ pc[s] = "streaming"
    /\ chainEventCh[s] # <<>>
    /\ chainEventCh' = [chainEventCh EXCEPT ![s] = Tail(chainEventCh[s])]
    /\ \E sendOk \in SendOutcomes(s) :
          IF sendOk
              THEN /\ stream' = [stream EXCEPT
                                   ![s] = Append(stream[s], ChainResponse(Head(chainEventCh[s])))]
                   /\ UNCHANGED <<pc, result, deregLog, failed>>
              ELSE /\ Return(s, "stream: send failed")
                   /\ failed' = [failed EXCEPT
                                   ![s] = NoteFailure(s, "chain", "send", "stream: send failed")]
                   /\ UNCHANGED stream
    /\ UNCHANGED <<topics, netEventCh, cancelled, regLog, chainEnq, emitted, txVars, pureVars>>

\* case event := <-netEventCh (lines 506-536): a decode error returns; the error
\* of gs.Send is assigned to the case's own err and the loop goes on.
RecvNetMessage(s) ==
    /\ pc[s] = "streaming"
    /\ netEventCh[s] # <<>>
    /\ netEventCh' = [netEventCh EXCEPT ![s] = Tail(netEventCh[s])]
    /\ LET event   == Head(netEventCh[s])
           decoded == DecodeNetMessage(event)
       IN  IF decoded.err # None
               THEN /\ Return(s, decoded.err)
                    /\ failed' = [failed EXCEPT
                                    ![s] = NoteFailure(s, event.type, "decode", decoded.err)]
                    /\ UNCHANGED stream
               ELSE \E sendOk \in SendOutcomes(s) :
                       IF sendOk
                           THEN /\ stream' = [stream EXCEPT
                                                ![s] = Append(stream[s], decoded.resp[1])]
                                /\ UNCHANGED <<pc, result, deregLog, failed>>
                           ELSE /\ failed' = [failed EXCEPT
                                                ![s] = NoteFailure(s, event.type, "send",
                                                                   "stream: send failed")]
                                /\ UNCHANGED <<pc, result, deregLog, stream>>
    /\ UNCHANGED <<topics, chainEventCh, cancelled, regLog, chainEnq, emitted, txVars, pureVars>>

\* The caller cancels the call or disconnects.
Cancel(s) ==
    /\ pc[s] = "streaming"
    /\ ~cancelled[s]
    /\ cancelled' = [cancelled EXCEPT ![s] = TRUE]
    /\ UNCHANGED <<pc, topics, chainEventCh, netEventCh, stream, result, regLog, deregLog,
                   chainEnq, failed, emitted, txVars, pureVars>>

\* The event emitter puts an event of a registered topic on the session's channel.
EmitChainEvent(s) ==
    \E event \in ChainEvents :
        /\ pc[s] = "streaming"
        /\ event.topic \in Range(topics[s])
        /\ Len(chainEventCh[s]) < ChanCap
        /\ emitted < MaxEmit
        /\ chainEventCh' = [chainEventCh EXCEPT ![s] = Append(chainEventCh[s], event)]
        /\ chainEnq' = [chainEnq EXCEPT ![s] = Append(chainEnq[s], event)]
        /\ emitted' = emitted + 1
        /\ UNCHANGED <<pc, topics, netEventCh, stream, cancelled, result, regLog, deregLog,
                       failed, txVars, pureVars>>

\* The net manager puts a new-block or new-transaction message on the session's
\* channel.
DeliverNetMessage(s) ==
    \E message \in NetMessages :
        /\ pc[s] = "streaming"
        /\ Len(netEventCh[s]) < ChanCap
        /\ emitted < MaxEmit
        /\ netEventCh' = [netEventCh EXCEPT ![s] = Append(netEventCh[s], message)]
        /\ emitted' = emitted + 1
        /\ UNCHANGED <<pc, topics, chainEventCh, stream, cancelled, result, regLog,
                       deregLog, chainEnq, failed, txVars, pureVars>>

InitSub == TxIdle /\ SubIdle /\ ParseIdle /\ ReceiptIdle /\ DeployIdle /\ MoreIdle

NextSub ==
    \E s \in Sessions :
        \/ Subscribe(s)
        \/ RecvChainEvent(s)
        \/ RecvNetMessage(s)
        \/ Cancel(s)
        \/ EmitChainEvent(s)
        \/ DeliverNetMessage(s)

SpecSub == InitSub /\ [][NextSub]_vars

\* The session's goroutine runs: a select with a ready channel takes a case.
FairSub ==
    /\ SpecSub
    /\ \A s \in Sessions : WF_vars(RecvChainEvent(s)) /\ WF_vars(RecvNetMessage(s))

\* C2: once a decode or a send has failed in the loop, for a chain event, a
\* new-block message or a new-transaction message, Subscribe has returned that
\* error (and so forwards nothing more).
C2_FailureTerminatesLoop ==
    \A s \in Sessions :
        failed[s] # <<>> => (pc[s] = "closed" /\ result[s] = failed[s][1].err)

\* How many times call r occurs in log.
Count(r, log) == Cardinality({i \in 1..Len(log) : log[i] = r})

\* C3: a session that has returned has made exactly one Deregister call for each
\* Register call it made (one per requested topic on the emitter, one per message
\* type on the net manager), and a session still streaming has made none.
C3_DeregisteredExactlyOnce ==
    \A s \in Sessions :
        /\ pc[s] = "closed" =>
              /\ \A r \in Range(regLog[s]) \cup Range(deregLog[s]) :
                    Count(r, deregLog[s]) = Count(r, regLog[s])
              /\ Len(deregLog[s]) = Len(topics[s]) + 2
              /\ \A type \in {MessageTypeNewBlock, MessageTypeNewTx} :
                    Cardinality({i \in 1..Len(deregLog[s]) :
                                    /\ deregLog[s][i].at = "net"
                                    /\ deregLog[s][i].what = type}) = 1
        /\ pc[s] # "closed" => deregLog[s] = <<>>

\* C3 witness: a session on two topics returned on a decode failure after it had
\* forwarded an event.
C3_Witness ==
    \E s \in Sessions :
        /\ pc[s] = "closed"
        /\ Len(topics[s]) = 2 /\ topics[s][1] # topics[s][2]
        /\ failed[s] # <<>> /\ failed[s][1].what = "decode"
        /\ stream[s] # <<>>
        /\ Len(deregLog[s]) = 4

\* C4: once the caller has cancelled, the session eventually returns.
C4_CancelLeadsToClosed ==
    \A s \in Sessions : cancelled[s] ~> (pc[s] = "closed")

\* The chain events in a stream, as the events they were forwarded from.
RECURSIVE ChainForwarded(_)
ChainForwarded(responses) ==
    IF responses = <<>> THEN <<>>
    ELSE LET rest == ChainForwarded(Tail(responses))
             head == Head(responses)
         IN  IF head.src = "chain"
                 THEN <<[topic |-> head.msgType, data |-> head.data]>> \o rest
                 ELSE rest

IsPrefix(a, b) == Len(a) <= Len(b) /\ a = SubSeq(b, 1, Len(a))

\* C5: while a session streams, the chain events forwarded so far followed by the
\* ones still on chainEventCh are exactly the events the emitter enqueued, in
\* order and unchanged; after it returned, the forwarded ones are a prefix of
\* the enqueued ones.
C5_ChainEventsInOrderOnce ==
    \A s \in Sessions :
        /\ pc[s] = "streaming" =>
              ChainForwarded(stream[s]) \o chainEventCh[s] = chainEnq[s]
        /\ IsPrefix(ChainForwarded(stream[s]), chainEnq[s])

\* C5 witness: a streaming session has forwarded two different chain events in
\* the order they were enqueued, with a network message forwarded between them.
C5_Witness ==
    \E s \in Sessions :
        /\ pc[s] = "streaming"
        /\ Len(stream[s]) = 3
        /\ stream[s][1].src = "chain" /\ stream[s][2].src = "net"
        /\ stream[s][3].src = "chain"
        /\ <<stream[s][1].msgType, stream[s][1].data>> #
              <<stream[s][3].msgType, stream[s][3].data>>
        /\ Len(chainEnq[s]) = 2

(***************************************************************************)
(* SpecPayload: parseTransaction applied to every request.                 *)
(***************************************************************************)
InitPayload ==
    /\ TxIdle /\ SubIdle /\ ReceiptIdle /\ DeployIdle /\ MoreIdle
    /\ pReq \in Requests
    /\ pOk \in BOOLEAN
    /\ pOut = <<>>

ParseStep ==
    /\ pOut = <<>>
    /\ pOut' = <<parseTransaction(pReq, pOk)>>
    /\ UNCHANGED <<txVars, subVars, pReq, pOk, rEvents, rStatus, dTxA, dTxB, dAddr, moreVars>>

SpecPayload == InitPayload /\ [][ParseStep]_vars

\* The groups of a request that are populated, as parseTransaction tests them.
Populated(reqTx) ==
    {g \in {"deploy", "call", "candidate", "delegate"} :
        \/ g = "deploy" /\ Len(reqTx.contract) = 1 /\ reqTx.contract[1].source # ""
        \/ g = "call" /\ Len(reqTx.contract) = 1 /\ reqTx.contract[1].function # ""
        \/ g = "candidate" /\ Len(reqTx.candidate) = 1
        \/ g = "delegate" /\ Len(reqTx.delegate) = 1}

Precedence == <<"deploy", "call", "candidate", "delegate">>

\* The type of the first group in precedence order that is populated.
HighestPrecedence(groups) ==
    LET idx == {i \in 1..Len(Precedence) : Precedence[i] \in groups}
    IN  IF idx = {} THEN "binary"
        ELSE Precedence[CHOOSE i \in idx : \A j \in idx : i <= j]

\* C7: whenever parseTransaction builds a transaction, its payload type is that of
\* the highest-precedence populated group (deploy > call > candidate > delegate),
\* and Binary when no group is populated.
C7_PayloadPrecedence ==
    (pOut # <<>> /\ pOut[1].err = None) =>
        /\ pOut[1].tx[1].type = HighestPrecedence(Populated(pReq))
        /\ (Populated(pReq) = {}) <=> (pOut[1].tx[1].type = TxPayloadBinaryType)

\* C7 witness: a request with deploy source, call function, candidate and delegate
\* all populated has been parsed into a Deploy transaction.
C7_Witness ==
    /\ pOut # <<>> /\ pOut[1].err = None
    /\ Populated(pReq) = {"deploy", "call", "candidate", "delegate"}
    /\ pOut[1].tx[1].type = TxPayloadDeployType

(***************************************************************************)
(* SpecAmount: parseTransaction applied to requests whose value, gas price *)
(* and gas limit are well-formed or malformed decimal strings.             *)
(***************************************************************************)
AmountRequests ==
    [from : {"n1a", "zz"}, to : {"n1a"},
     value : {<<1>>} \cup MalformedAmountStrings,
     nonce : {1},
     gasPrice : {<<1>>} \cup MalformedAmountStrings,
     gasLimit : {<<1>>} \cup MalformedAmountStrings,
     contract : {<<>>, <<[source |-> "s1", function |-> ""]>>},
     candidate : {<<>>}, delegate : {<<>>}]

InitAmount ==
    /\ TxIdle /\ SubIdle /\ ReceiptIdle /\ DeployIdle /\ MoreIdle
    /\ pReq \in AmountRequests
    /\ pOk \in BOOLEAN
    /\ pOut = <<>>

SpecAmount == InitAmount /\ [][ParseStep]_vars

HasMalformedAmount(reqTx) ==
    ~IsDecimal(reqTx.value) \/ ~IsDecimal(reqTx.gasPrice) \/ ~IsDecimal(reqTx.gasLimit)

\* C11: parseTransaction on a request (with addresses that parse) whose value, gas
\* price or gas limit is a malformed decimal string fails with an invalid-amount
\* error and builds no transaction.
C11_MalformedAmountRejected ==
    (/\ pOut # <<>>
     /\ AddressParse(pReq.from).err = None /\ AddressParse(pReq.to).err = None
     /\ HasMalformedAmount(pReq))
        => (pOut[1].err = "invalid amount" /\ pOut[1].tx = <<>>)

(***************************************************************************)
(* SpecReceipt: the status computation of toTransactionResponse applied to *)
(* every result of FetchEvents.                                            *)
(***************************************************************************)
InitReceipt ==
    /\ TxIdle /\ SubIdle /\ ParseIdle /\ DeployIdle /\ MoreIdle
    /\ rEvents \in FetchedEvents
    /\ rStatus = <<>>

ReceiptStep ==
    /\ rStatus = <<>>
    /\ rStatus' = <<StatusOf(rEvents)>>
    /\ UNCHANGED <<txVars, subVars, pReq, pOk, pOut, rEvents, dTxA, dTxB, dAddr, moreVars>>

SpecReceipt == InitReceipt /\ [][ReceiptStep]_vars

NoDecidingEvent(events) ==
    \A i \in 1..Len(events.list) :
        events.list[i] \notin {TopicExecuteTxSuccess, TopicExecuteTxFailed}

\* C6: the status is pending (2) when no fetched event has the success or the
\* failure topic, and otherwise success (1) or failed (0) as the first such event says.
C6_ReceiptStatus ==
    rStatus # <<>> =>
        IF NoDecidingEvent(rEvents) THEN rStatus[1] = 2
        ELSE LET i == FirstDeciding(rEvents)
             IN  rStatus[1] = (IF rEvents.list[i] = TopicExecuteTxSuccess THEN 1 ELSE 0)

(***************************************************************************)
(* SpecDeploy: the contract address derivations of the two submit handlers *)
(* applied to every pair of Deploy transactions.                           *)
(***************************************************************************)
DeployTxs ==
    {parseTransaction(r, TRUE).tx[1] :
        r \in {q \in Requests : /\ parseTransaction(q, TRUE).err = None
                                /\ PayloadTypeOf(q) = TxPayloadDeployType}}

Handlers == {"SendTransaction", "SendRawTransaction"}

\* The contract address handler `via` reports for tx.
ReportedContractAddress(via, tx) ==
    IF via = "SendTransaction" THEN SendTxContractAddress(tx)
    ELSE SendRawContractAddress(tx)

InitDeploy ==
    /\ TxIdle /\ SubIdle /\ ParseIdle /\ ReceiptIdle /\ MoreIdle
    /\ dTxA \in [via : Handlers, tx : DeployTxs]
    /\ dTxB \in [via : Handlers, tx : DeployTxs]
    /\ dAddr = <<>>

DeriveStep ==
    /\ dAddr = <<>>
    /\ dAddr' = <<ReportedContractAddress(dTxA.via, dTxA.tx),
                  ReportedContractAddress(dTxB.via, dTxB.tx)>>
    /\ UNCHANGED <<txVars, subVars, pReq, pOk, pOut, rEvents, rStatus, dTxA, dTxB, moreVars>>

SpecDeploy == InitDeploy /\ [][DeriveStep]_vars

\* C9: two Deploy transactions with the same sender and nonce are given the same
\* contract address, whatever their value, gas price, gas limit and payload and
\* whichever of SendTransaction and SendRawTransaction reports it.
C9_ContractAddressOfSenderNonce ==
    (dAddr # <<>> /\ dTxA.tx.from = dTxB.tx.from /\ dTxA.tx.nonce = dTxB.tx.nonce)
        => dAddr[1] = dAddr[2]

\* C9 witness: the same sender and nonce through the two handlers, with different
\* value, gas price, gas limit and payload, and one address.
C9_Witness ==
    /\ dAddr # <<>>
    /\ dTxA.via = "SendTransaction" /\ dTxB.via = "SendRawTransaction"
    /\ dTxA.tx.from = dTxB.tx.from /\ dTxA.tx.nonce = dTxB.tx.nonce
    /\ dTxA.tx.value # dTxB.tx.value /\ dTxA.tx.gasPrice # dTxB.tx.gasPrice
    /\ dTxA.tx.gasLimit # dTxB.tx.gasLimit /\ dTxA.tx.payload # dTxB.tx.payload
    /\ dAddr[1] = dAddr[2]

(***************************************************************************)
(* SpecQuery: the read handlers keyed by hash or height, applied to a      *)
(* ledger drawn at the start.                                              *)
(***************************************************************************)
\* Hex strings of the requests; any other string is no hex string.
HexStrings == {"a1", "a2", "a3", "b1", "b2", "b3"}

HashStrings == HexStrings \cup {"zz"}

HexValue(str) ==
    CASE str = "a1" -> <<161>> [] str = "a2" -> <<162>> [] str = "a3" -> <<163>>
      [] str = "b1" -> <<177>> [] str = "b2" -> <<178>> [] str = "b3" -> <<179>>

\* byteutils.FromHex
FromHex(str) ==
    IF str \in HexStrings THEN [err |-> None, bytes |-> HexValue(str)]
    ELSE [err |-> "invalid hex string", bytes |-> <<>>]

\* byteutils.Hash.String / byteutils.Hex
Hex(bytes) == CHOOSE str \in HexStrings : HexValue(str) = bytes

\* The transactions a ledger may hold; no transaction has hash a3.
QueryTxs == {[hash |-> <<161>>, nonce |-> 1], [hash |-> <<162>>, nonce |-> 2]}

TxLists == {l \in SeqsUpTo(QueryTxs, 2) : \A i, j \in 1..Len(l) : l[i] = l[j] => i = j}

BlockAt(h, txs) == [height |-> h, hash |-> <<176 + h>>, txs |-> txs]

\* Chains of one to MaxHeight blocks in which no transaction is in two blocks.
QueryChains ==
    UNION {{[h \in 1..n |-> BlockAt(h, f[h])] :
              f \in {g \in [1..n -> TxLists] :
                       \A h1, h2 \in 1..n :
                           h1 # h2 => Range(g[h1]) \cap Range(g[h2]) = {}}} :
           n \in 1..MaxHeight}

\* lib is the height of the latest irreversible block, <<>> when there is none.
Ledgers ==
    {[blocks |-> bs, lib |-> l] :
        bs \in QueryChains,
        l \in {<<>>, <<1>>}}

\* BlockChain.GetBlock: <<>> is the nil block.
GetBlock(bhash) ==
    LET hits == {h \in 1..Len(qLedger.blocks) : qLedger.blocks[h].hash = bhash}
    IN  IF hits = {} THEN <<>> ELSE <<qLedger.blocks[CHOOSE h \in hits : TRUE]>>

\* BlockChain.GetBlockOnCanonicalChainByHeight on the ledger.
BlockByHeight(height) ==
    IF height \in 1..Len(qLedger.blocks) THEN <<qLedger.blocks[height]>> ELSE <<>>

\* BlockChain.LatestIrreversibleBlock
LatestBlock == IF qLedger.lib = <<>> THEN <<>> ELSE BlockByHeight(qLedger.lib[1])

\* BlockChain.GetTransaction: <<>> is the nil transaction.
GetTransaction(hash) ==
    LET all == UNION {Range(qLedger.blocks[h].txs) : h \in 1..Len(qLedger.blocks)}
        hits == {t \in all : t.hash = hash}
    IN  IF hits = {} THEN <<>> ELSE <<CHOOSE t \in hits : TRUE>>

ErrKeyNotFound == "not found"

\* What Block.GetTransaction may return for a hash that is not in the block: an
\* error, or no transaction and no error.
AbsentOutcomes == {"error", "nil"}

\* Block.GetTransaction on the tail block.
TailGetTransaction(hash, absent) ==
    LET tail == qLedger.blocks[Len(qLedger.blocks)]
        hits == {t \in Range(tail.txs) : t.hash = hash}
    IN  IF hits # {} THEN [err |-> None, tx |-> <<CHOOSE t \in hits : TRUE>>]
        ELSE IF absent = "error" THEN [err |-> ErrKeyNotFound, tx |-> <<>>]
        ELSE [err |-> None, tx |-> <<>>]

\* What Block.FetchEvents returns to the read handlers.
QueryEvents == {[nil |-> TRUE, list |-> <<>>],
                [nil |-> FALSE, list |-> <<TopicExecuteTxSuccess>>]}

toTransactionResponse(tx, events) ==
    [err |-> None,
     resp |-> <<[hash |-> Hex(tx.hash), nonce |-> tx.nonce, full |-> TRUE,
                 status |-> StatusOf(events)]>>]

\* The local list txs of toBlockResponse (lines 365-375).
BlockTransactions(block, fullTransaction, events) ==
    [i \in 1..Len(block.txs) |->
        IF fullTransaction THEN toTransactionResponse(block.txs[i], events).resp[1]
        ELSE [hash |-> Hex(block.txs[i].hash), full |-> FALSE]]

\* toBlockResponse: the list txs is built and left out of resp, whose
\* Transactions field keeps its zero value.
toBlockResponse(block, fullTransaction, events) ==
    IF block = <<>> THEN [err |-> "block not found", resp |-> <<>>]
    ELSE [err |-> None,
          resp |-> <<[hash |-> Hex(block[1].hash), height |-> block[1].height,
                      transactions |-> <<>>]>>]

QueryIdleCall == [op |-> "none", hash |-> "", height |-> 0, full |-> FALSE,
                  err |-> None, resp |-> <<>>, estimated |-> <<>>]

QueryOutcome(op, hash, height, full, r, estimated) ==
    <<[op |-> op, hash |-> hash, height |-> height, full |-> full,
       err |-> r.err, resp |-> r.resp, estimated |-> estimated]>>

getBlockByHash(hash, full, events) ==
    LET bhash == FromHex(hash)
    IN  IF bhash.err # None THEN [err |-> bhash.err, resp |-> <<>>]
        ELSE toBlockResponse(GetBlock(bhash.bytes), full, events)

getBlockByHeight(height, full, events) ==
    toBlockResponse(BlockByHeight(height), full, events)

latestIrreversibleBlock(events) == toBlockResponse(LatestBlock, FALSE, events)

getTransactionReceipt(hash, events) ==
    LET tx == GetTransaction(FromHex(hash).bytes)
    IN  IF tx = <<>> THEN [err |-> "transaction not found", resp |-> <<>>]
        ELSE toTransactionResponse(tx[1], events)

\* BlockChain.EstimateGas succeeds or fails.
EstimateOutcomes == {"ok", "fails"}

getGasUsedMutEstimateFirst(hash, estimate) ==
    LET bhash == FromHex(hash)
        tx    == GetTransaction(bhash.bytes)
    IN  [err |-> IF bhash.err # None THEN bhash.err
                 ELSE IF tx = <<>> THEN "transaction not found" ELSE None,
         resp |-> <<>>, estimated |-> <<tx>>]

\* GetGasUsed; estimated lists the arguments of the calls of EstimateGas.
getGasUsed(hash, estimate) ==
    LET bhash == FromHex(hash)
        tx    == GetTransaction(bhash.bytes)
    IN  IF bhash.err # None THEN [err |-> bhash.err, resp |-> <<>>, estimated |-> <<>>]
        ELSE IF tx = <<>>
            THEN [err |-> "transaction not found", resp |-> <<>>, estimated |-> <<>>]
        ELSE IF estimate = "fails"
            THEN [err |-> "estimate failed", resp |-> <<>>, estimated |-> <<tx[1]>>]
        ELSE [err |-> None, resp |-> <<[gas |-> DecimalString(tx[1].nonce)]>>,
              estimated |-> <<tx[1]>>]

\* GetEventsByHash: a nil transaction without an error falls through to
\* `return nil, nil` (line 626).
getEventsByHash(hash, absent, events) ==
    LET got == TailGetTransaction(FromHex(hash).bytes, absent)
    IN  IF got.err # None THEN [err |-> got.err, resp |-> <<>>]
        ELSE IF got.tx # <<>>
            THEN [err |-> None, resp |-> <<[events |-> events.list]>>]
        ELSE [err |-> None, resp |-> <<>>]

GetBlockByHash ==
    \E hash \in HashStrings, full \in BOOLEAN, events \in QueryEvents :
        /\ qOut' = QueryOutcome("GetBlockByHash", hash, 0, full,
                                getBlockByHash(hash, full, events), <<>>)
        /\ UNCHANGED <<qLedger, txVars, subVars, firstVars, rawVars, concVars, regVars>>

GetBlockByHeight ==
    \E height \in 0..(MaxHeight + 1), full \in BOOLEAN, events \in QueryEvents :
        /\ qOut' = QueryOutcome("GetBlockByHeight", "", height, full,
                                getBlockByHeight(height, full, events), <<>>)
        /\ UNCHANGED <<qLedger, txVars, subVars, firstVars, rawVars, concVars, regVars>>

LatestIrreversibleBlock ==
    \E events \in QueryEvents :
        /\ qOut' = QueryOutcome("LatestIrreversibleBlock", "", 0, FALSE,
                                latestIrreversibleBlock(events), <<>>)
        /\ UNCHANGED <<qLedger, txVars, subVars, firstVars, rawVars, concVars, regVars>>

GetTransactionReceipt ==
    \E hash \in HashStrings, events \in QueryEvents :
        /\ qOut' = QueryOutcome("GetTransactionReceipt", hash, 0, FALSE,
                                getTransactionReceipt(hash, events), <<>>)
        /\ UNCHANGED <<qLedger, txVars, subVars, firstVars, rawVars, concVars, regVars>>

GetGasUsed ==
    \E hash \in HashStrings, estimate \in EstimateOutcomes :
        LET r == getGasUsed(hash, estimate)
        IN  /\ qOut' = QueryOutcome("GetGasUsed", hash, 0, FALSE, r, r.estimated)
            /\ UNCHANGED <<qLedger, txVars, subVars, firstVars, rawVars, concVars, regVars>>

GetEventsByHash ==
    \E hash \in HashStrings, absent \in AbsentOutcomes, events \in QueryEvents :
        /\ qOut' = QueryOutcome("GetEventsByHash", hash, 0, FALSE,
                                getEventsByHash(hash, absent, events), <<>>)
        /\ UNCHANGED <<qLedger, txVars, subVars, firstVars, rawVars, concVars, regVars>>

InitQuery ==
    /\ TxIdle /\ SubIdle /\ ParseIdle /\ ReceiptIdle /\ DeployIdle
    /\ RawIdle /\ ConcIdle /\ RegIdle
    /\ qLedger \in Ledgers
    /\ qOut = <<>>

NextQuery ==
    \/ GetBlockByHash \/ GetBlockByHeight \/ LatestIrreversibleBlock
    \/ GetTransactionReceipt \/ GetGasUsed \/ GetEventsByHash

SpecQuery == InitQuery /\ [][NextQuery]_vars

\* The block the last call looked up, <<>> when the ledger has none.
QueriedBlock ==
    CASE qOut[1].op = "GetBlockByHash" -> GetBlock(FromHex(qOut[1].hash).bytes)
      [] qOut[1].op = "GetBlockByHeight" -> BlockByHeight(qOut[1].height)
      [] qOut[1].op = "LatestIrreversibleBlock" -> LatestBlock
      [] OTHER -> <<>>

BlockOps == {"GetBlockByHash", "GetBlockByHeight", "LatestIrreversibleBlock"}

\* C12: a block response holds one transaction entry per transaction of the
\* block, in the block's order: the full detail of each when the full-transaction
\* flag is set, otherwise an entry with only the transaction's hash.
C12_BlockResponseListsTransactions ==
    (qOut # <<>> /\ qOut[1].op \in BlockOps /\ qOut[1].err = None)
        => /\ Len(qOut[1].resp[1].transactions) = Len(QueriedBlock[1].txs)
           /\ \A i \in 1..Len(QueriedBlock[1].txs) :
                LET entry == qOut[1].resp[1].transactions[i]
                IN  /\ entry.hash = Hex(QueriedBlock[1].txs[i].hash)
                    /\ entry.full = qOut[1].full

\* The keyed object of the last call is absent: no block for a well-formed hash,
\* no block at the height, no irreversible block, no transaction for the hash
\* (in the tail block, for GetEventsByHash).
KeyedObjectAbsent ==
    CASE qOut[1].op \in BlockOps ->
            (qOut[1].op = "GetBlockByHash" => FromHex(qOut[1].hash).err = None)
                /\ QueriedBlock = <<>>
      [] qOut[1].op \in {"GetTransactionReceipt", "GetGasUsed"} ->
            FromHex(qOut[1].hash).err = None
                /\ GetTransaction(FromHex(qOut[1].hash).bytes) = <<>>
      [] qOut[1].op = "GetEventsByHash" ->
            FromHex(qOut[1].hash).err = None
                /\ \A absent \in AbsentOutcomes :
                     TailGetTransaction(FromHex(qOut[1].hash).bytes, absent).tx = <<>>
      [] OTHER -> FALSE

NotFoundErrors == {"block not found", "transaction not found", ErrKeyNotFound}

\* C13: a read operation keyed by hash or height whose keyed object is absent
\* fails with a not-found error and returns no response; it never returns a
\* success outcome.
C13_AbsentIsNotFound ==
    (qOut # <<>> /\ KeyedObjectAbsent)
        => (qOut[1].err \in NotFoundErrors /\ qOut[1].resp = <<>>)

\* C16: GetGasUsed invokes the estimator at most once and only on the transaction
\* the hash resolves to; for a malformed hash or a hash of no transaction it
\* fails and the estimator is not invoked.
C16_ResolveBeforeEstimate ==
    (qOut # <<>> /\ qOut[1].op = "GetGasUsed")
        => LET bhash == FromHex(qOut[1].hash)
               tx    == GetTransaction(bhash.bytes)
           IN  /\ Len(qOut[1].estimated) <= 1
               /\ (bhash.err # None \/ tx = <<>>)
                    => (qOut[1].estimated = <<>> /\ qOut[1].err # None
                        /\ qOut[1].resp = <<>>)
               /\ qOut[1].estimated # <<>> => qOut[1].estimated = tx

\* C16 witness: a ledger with transactions, a hash of none of them, and a
\* failure without an estimate.
C16_Witness ==
    /\ qOut # <<>> /\ qOut[1].op = "GetGasUsed"
    /\ qOut[1].hash = "a3" /\ qOut[1].err = "transaction not found"
    /\ qOut[1].estimated = <<>>
    /\ Len(qLedger.blocks) = 2
    /\ qLedger.blocks[1].txs # <<>> /\ qLedger.blocks[2].txs # <<>>

\* A resolved transaction is estimated once.
C16_EstimatedOnce ==
    /\ qOut # <<>> /\ qOut[1].op = "GetGasUsed"
    /\ qOut[1].hash = "a2" /\ qOut[1].err = None
    /\ qOut[1].estimated = <<[hash |-> <<162>>, nonce |-> 2]>>

(***************************************************************************)
(* SpecRaw: SendRawTransaction applied to the serialization of a signed    *)
(* transaction.                                                            *)
(***************************************************************************)
\* Validly signed transactions: built from a request and signed.
SignedTxs ==
    {SignTransaction(parseTransaction(r, TRUE).tx[1]) :
        r \in {q \in SubmitRequests : parseTransaction(q, TRUE).err = None}}

\* Transaction.ToProto followed by proto.Marshal.
Serialize(tx) == Marshal(ToProto(tx))

InitRaw ==
    /\ TxIdle /\ SubIdle /\ ParseIdle /\ ReceiptIdle /\ DeployIdle
    /\ QueryIdle /\ ConcIdle /\ RegIdle
    /\ wTx \in SignedTxs
    /\ wOut = <<>>

RawStep ==
    \E oracle \in {"ok", "poolRejects"} :
        /\ wOut = <<>>
        /\ wOut' = <<sendRawTransaction(Serialize(wTx), oracle)>>
        /\ UNCHANGED <<wTx, txVars, subVars, firstVars, queryVars, concVars, regVars>>

SpecRaw == InitRaw /\ [][RawStep]_vars

Call ==
    \E req \in SubmitRequests, oracle \in CallOracles :
        /\ last' = call(req, oracle)
        /\ pool' = PoolAfter(last')
        /\ UNCHANGED <<chain, subVars, pureVars>>

InitCall ==
    /\ chain = <<GenesisBlock>>
    /\ pool \in 0..MaxPool
    /\ last = IdleCall
    /\ SubIdle /\ ParseIdle /\ ReceiptIdle /\ DeployIdle /\ MoreIdle

NextCall == Call \/ AppendBlock

SpecCall == InitCall /\ [][NextCall]_vars

\* C15: a Call never invokes SignTransaction or PushAndBroadcast and leaves the
\* pool as it was, whatever its outcome; it makes no nonce check, so a request
\* that builds and whose nonce is at or below the sender's nonce in the tail
\* block is still handed to BlockChain.Call.
C15_CallIsDryRun ==
    [][(last'.op = "Call")
          => /\ ~last'.signed
             /\ last'.pushed = <<>>
             /\ Range(last'.steps) \cap {"SignTransaction", "PushAndBroadcast"} = {}
             /\ pool' = pool
             /\ last'.err # "nonce is invalid"
             /\ last'.tx # <<>> => last'.steps = <<"parseTransaction", "Call">>]_vars

\* C15 witness: a Call whose nonce equals the sender's nonzero current nonce
\* returned a result while the pool holds a transaction.
C15_Witness ==
    /\ last.op = "Call" /\ NonceAtOrBelowCurrent(last) /\ last.nonce = 1
    /\ last.err = None /\ last.result # <<>>
    /\ pool = MaxPool

(***************************************************************************)
(* The outcome counters and the order of the steps of the submit handlers, *)
(* under Spec.                                                             *)
(***************************************************************************)
SuccessCounter(op) ==
    IF op = "SendTransaction" THEN "metricsSendTxSuccess" ELSE "metricsSendRawTxSuccess"

FailedCounter(op) ==
    IF op = "SendTransaction" THEN "metricsSendTxFailed" ELSE "metricsSendRawTxFailed"

\* C17: every SendTransaction and SendRawTransaction call marks exactly one
\* outcome counter, once: its handler's failure counter when it returns an error,
\* its handler's success counter when it succeeds.
C17_OneOutcomeCounter ==
    last.op \in {"SendTransaction", "SendRawTransaction"}
        => last.marks = <<IF last.err = None THEN SuccessCounter(last.op)
                          ELSE FailedCounter(last.op)>>

\* C17 witness: a raw transaction rejected by the pool, counted as one failure.
C17_Witness ==
    /\ last.op = "SendRawTransaction" /\ last.err = "pool: rejected"
    /\ last.pushed # <<>>
    /\ last.marks = <<"metricsSendRawTxFailed">>

SubmitOrder ==
    <<"AddressParse", "NonceCheck", "parseTransaction", "SignTransaction",
      "PushAndBroadcast">>

\* The errors a step of sendTransaction can end the call with.
StepErrors(step) ==
    CASE step = "AddressParse"     -> {"address: invalid address"}
      [] step = "NonceCheck"       -> {"nonce is invalid"}
      [] step = "parseTransaction" -> {"address: invalid address",
                                       "payload: marshal failed"}
      [] step = "SignTransaction"  -> {"account: sign failed"}
      [] step = "PushAndBroadcast" -> {"pool: rejected"}

\* C18: a sendTransaction call runs a prefix of address parse, nonce check,
\* build, signing, pool submission, each once and in that order; a failed call
\* stops at the step that failed and returns its error, a successful call ran
\* them all, and the transaction handed to the pool is the signed one.
C18_SubmitStepOrder ==
    last.op = "SendTransaction"
        => /\ last.steps # <<>> /\ IsPrefix(last.steps, SubmitOrder)
           /\ last.err = None => last.steps = SubmitOrder
           /\ last.err # None => last.err \in StepErrors(last.steps[Len(last.steps)])
           /\ last.signed <=> "SignTransaction" \in Range(last.steps)
           /\ last.pushed # <<>> <=> "PushAndBroadcast" \in Range(last.steps)
           /\ last.pushed # <<>> => (last.pushed[1].sign /\ last.pushed = last.tx)

\* C18 witness: signing failed after a successful build, and nothing was pushed.
C18_Witness ==
    /\ last.op = "SendTransaction" /\ last.err = "account: sign failed"
    /\ last.steps = <<"AddressParse", "NonceCheck", "parseTransaction", "SignTransaction">>
    /\ last.tx # <<>> /\ last.pushed = <<>>

(***************************************************************************)
(* SpecConc: sendTransaction calls running concurrently (each RPC runs in  *)
(* its own goroutine and the handler takes no lock) while the chain grows. *)
(* A call reads the tail block, parses the sender and tests the nonce in   *)
(* one step, and builds, signs and pushes the transaction in a later one.  *)
(***************************************************************************)
Callers == {"c1", "c2"}

ConcRequests ==
    {r \in SubmitRequests :
        r.to = "n1a" /\ r.contract = <<>> /\ r.candidate = <<>> /\ r.delegate = <<>>}

\* Lines 189-198: TailBlock, AddressParse and the nonce test.
Begin(c) ==
    \E req \in ConcRequests :
        LET addr == AddressParse(req.from)
            err  == IF addr.err # None THEN addr.err
                    ELSE IF NonceRejected(req.nonce, TailBlock[addr.bytes].nonce)
                        THEN "nonce is invalid"
                    ELSE None
        IN  /\ cPc[c] = "idle"
            /\ cReq' = [cReq EXCEPT ![c] = <<[req |-> req, err |-> err]>>]
            /\ cPc' = [cPc EXCEPT ![c] = IF err = None THEN "checked" ELSE "done"]
            /\ UNCHANGED <<pushLog, txVars, subVars, firstVars, queryVars, rawVars, regVars>>

\* Lines 200-220: parseTransaction, SignTransaction and PushAndBroadcast; pushLog
\* records each transaction handed to the pool with the sender's nonce in the
\* tail block at that moment.
Finish(c) ==
    \E oracle \in {"ok", "signFails"} :
        LET parsed == parseTransaction(cReq[c][1].req, TRUE)
            stx    == SignTransaction(parsed.tx[1])
            err    == IF parsed.err # None THEN parsed.err
                      ELSE IF oracle = "signFails" THEN "account: sign failed"
                      ELSE None
        IN  /\ cPc[c] = "checked"
            /\ cPc' = [cPc EXCEPT ![c] = "done"]
            /\ cReq' = [cReq EXCEPT ![c] = <<[req |-> cReq[c][1].req, err |-> err]>>]
            /\ pushLog' = IF err # None THEN pushLog
                          ELSE Append(pushLog,
                                      [from |-> stx.from, nonce |-> stx.nonce,
                                       tailNonce |-> TailBlock[stx.from].nonce])
            /\ UNCHANGED <<txVars, subVars, firstVars, queryVars, rawVars, regVars>>

InitConc ==
    /\ TxIdle /\ SubIdle /\ ParseIdle /\ ReceiptIdle /\ DeployIdle
    /\ QueryIdle /\ RawIdle /\ RegIdle
    /\ cPc = [c \in Callers |-> "idle"]
    /\ cReq = [c \in Callers |-> <<>>]
    /\ pushLog = <<>>

NextConc == (\E c \in Callers : Begin(c) \/ Finish(c)) \/ AppendBlock

SpecConc == InitConc /\ [][NextConc]_vars

\* C19: for each sender at most one transaction per nonce is handed to the pool,
\* and no transaction handed to the pool has a nonce at or below the sender's
\* nonce in the tail block at the time it is handed over.
C19_ExactlyOnceNonce ==
    /\ \A i, j \in 1..Len(pushLog) :
         (pushLog[i].from = pushLog[j].from /\ pushLog[i].nonce = pushLog[j].nonce)
            => i = j
    /\ \A i \in 1..Len(pushLog) : pushLog[i].nonce > pushLog[i].tailNonce

(***************************************************************************)
(* SpecReg: two Subscribe sessions on one service, and the registries of   *)
(* the event emitter and the net manager. The emitter holds (topic,        *)
(* channel) pairs; the net manager removes the subscribers that carry the  *)
(* identity and message type of the subscriber it is given.                *)
(***************************************************************************)
ConcurrentSessions == {"s1", "s2"}

RegIdleSession == [state |-> "idle", topics |-> <<>>]

RegisterAll(regs, rs) == regs \cup Range(rs)

Matches(x, r) ==
    IF r.at = "net" THEN x.at = "net" /\ x.id = r.id /\ x.what = r.what
    ELSE x.at = "emitter" /\ x.ch = r.ch /\ x.what = r.what

RECURSIVE DeregisterAll(_, _)
DeregisterAll(regs, rs) ==
    IF rs = <<>> THEN regs
    ELSE DeregisterAll({x \in regs : ~Matches(x, rs[1])}, Tail(rs))

\* Subscribe up to the select loop (lines 479-494).
SubscribeRegister(s) ==
    \E tps \in TopicRequests :
        /\ rPc[s].state = "idle"
        /\ rPc' = [rPc EXCEPT ![s] = [state |-> "streaming", topics |-> tps]]
        /\ netRegs' = RegisterAll(netRegs, Registrations(s, tps))
        /\ UNCHANGED <<rGot, txVars, subVars, firstVars, queryVars, rawVars, concVars>>

\* A return of Subscribe: the deferred deregistrations run (lines 485-496).
SubscribeReturn(s) ==
    /\ rPc[s].state = "streaming"
    /\ rPc' = [rPc EXCEPT ![s].state = "closed"]
    /\ netRegs' = DeregisterAll(netRegs, DeferredDeregistrations(s, rPc[s].topics))
    /\ UNCHANGED <<rGot, txVars, subVars, firstVars, queryVars, rawVars, concVars>>

\* The net manager hands a message to a session's channel while a subscriber
\* with that channel is registered.
Dispatch(s) ==
    /\ \E x \in netRegs : x.at = "net" /\ x.ch = <<"netEventCh", s>>
    /\ rGot[s] < MaxGot
    /\ rGot' = [rGot EXCEPT ![s] = @ + 1]
    /\ UNCHANGED <<netRegs, rPc, txVars, subVars, firstVars, queryVars, rawVars, concVars>>

InitReg ==
    /\ TxIdle /\ SubIdle /\ ParseIdle /\ ReceiptIdle /\ DeployIdle
    /\ QueryIdle /\ RawIdle /\ ConcIdle
    /\ netRegs = {}
    /\ rPc = [s \in ConcurrentSessions |-> RegIdleSession]
    /\ rGot = [s \in ConcurrentSessions |-> 0]

NextReg ==
    \E s \in ConcurrentSessions : SubscribeRegister(s) \/ SubscribeReturn(s) \/ Dispatch(s)

SpecReg == InitReg /\ [][NextReg]_vars

\* C20: the net registrations of different sessions carry different identities,
\* and while a session streams all its topic and network-message registrations
\* stay registered, whichever other sessions have exited.
C20_OwnRegistrationsOnly ==
    /\ \A x, y \in netRegs :
         (x.at = "net" /\ y.at = "net" /\ x.ch # y.ch) => x.id # y.id
    /\ \A s \in ConcurrentSessions :
         rPc[s].state = "streaming"
            => Range(Registrations(s, rPc[s].topics)) \subseteq netRegs

(***************************************************************************)
(* SendRawTransaction against its input, under Spec.                       *)
(***************************************************************************)
\* The error of decoding raw data: of proto.Unmarshal, else of FromProto, else
\* none.
DecodeError(data) ==
    LET pbTx == Unmarshal(data)
    IN  IF pbTx.err # None THEN pbTx.err ELSE FromProto(pbTx.pb[1]).err

====
